---------------------------- MODULE Spec2Model ----------------------------
(***************************************************************************)
(* Model of Jira_CreateTicket.py: one invocation of main() processing one  *)
(* Visual TOM alarm against a Jira Service Management instance.            *)
(*                                                                         *)
(* Python strings are sequences of one-character strings, so that          *)
(* str.lower(), == and f-string concatenation are computed, not assumed.   *)
(* Python None is the one-element sequence None, which no string equals.   *)
(* A dict is a sequence of <<key, value>> pairs in insertion order.        *)
(***************************************************************************)
EXTENDS Integers, Sequences, FiniteSets

VARIABLES
    pc,             \* position of the process in main()
    exitCode,       \* process exit status, meaningful once pc = "exited"
    configPresent,  \* config.py can be imported
    argsOk,         \* the command line satisfies the argparse declaration
    args,           \* argparse namespace
    mappings,       \* config.custom_field_mappings
    remote,         \* what the Jira instance holds: issues, issue types, priorities
    files,          \* what the file system holds at the two log paths
    priority,       \* local variable priority of main()
    issue_type,     \* local variable issue_type of main()
    custom_fields,  \* local variable custom_fields of main()
    existing_issue, \* local variable existing_issue of main()
    summary,        \* summary argument handed to create_issue
    description,    \* description argument handed to create_issue
    issue_type_id,  \* local variable issue_type_id of create_issue
    priority_id,    \* local variable priority_id of create_issue
    issue_key,      \* local variable issue_key of main()
    calls,          \* remote calls issued so far, in order
    printed,        \* diagnostics printed so far, in order
    created,        \* tickets the remote service created for this run
    step,           \* position of the setup wizard in JiraConfigSetup.run()
    config,         \* self.config of the setup wizard
    wizardCalls,    \* remote calls the setup wizard issued so far, in order
    wizardExit,     \* exit status of the setup wizard, once step = "exited"
    config_content, \* what generate_config_file formatted, once it ran
    saved           \* generate_config_file wrote config.py

vars == <<pc, exitCode, configPresent, argsOk, args, mappings, remote, files,
          priority, issue_type, custom_fields, existing_issue, summary,
          description, issue_type_id, priority_id, issue_key, calls, printed,
          created, step, config, wizardCalls, wizardExit, config_content,
          saved>>

\* the state of Jira_CreateTicket.py
mainVars == <<pc, exitCode, configPresent, argsOk, args, mappings, remote,
              files, priority, issue_type, custom_fields, existing_issue,
              summary, description, issue_type_id, priority_id, issue_key,
              calls, printed, created>>

\* the state of setup_config.py
wizardVars == <<step, config, wizardCalls, wizardExit, config_content, saved>>

-----------------------------------------------------------------------------
(* Bounds *)

\* Largest number of issues the search page of the modelled instance returns.
MaxPage == 2

-----------------------------------------------------------------------------
(* Python values *)

None == <<"None">>

\* bool(v) of a string, a list or None
Truthy(v) == v /= None /\ v /= <<>>

UpperChars == <<"A","B","C","D","E","F","G","H","I","J","K","L","M",
                "N","O","P","Q","R","S","T","U","V","W","X","Y","Z">>
LowerChars == <<"a","b","c","d","e","f","g","h","i","j","k","l","m",
                "n","o","p","q","r","s","t","u","v","w","x","y","z">>

LowerChar(c) ==
    IF \E i \in 1..Len(UpperChars) : UpperChars[i] = c
    THEN LowerChars[CHOOSE i \in 1..Len(UpperChars) : UpperChars[i] = c]
    ELSE c

\* str.lower()
Lower(s) == [i \in 1..Len(s) |-> LowerChar(s[i])]

\* needle in haystack, for strings
Contains(haystack, needle) ==
    \E i \in 0..(Len(haystack) - Len(needle)) :
        SubSeq(haystack, i + 1, i + Len(needle)) = needle

\* key in dict
DictHas(d, k) == \E i \in 1..Len(d) : d[i][1] = k

\* dict.get(key)
DictGet(d, k) ==
    IF DictHas(d, k) THEN d[CHOOSE i \in 1..Len(d) : d[i][1] = k][2] ELSE None

\* dict[key] = value
DictSet(d, k, v) ==
    IF DictHas(d, k)
    THEN [i \in 1..Len(d) |-> IF d[i][1] = k THEN <<k, v>> ELSE d[i]]
    ELSE Append(d, <<k, v>>)

-----------------------------------------------------------------------------
(* config.py, as config.template.py ships it *)

default_issue_type ==
    <<"[","S","y","s","t","e","m","]"," ","I","n","c","i","d","e","n","t">>
default_priority == <<"H","i","g","h">>

sIncident == <<"I","n","c","i","d","e","n","t">>
sTask == <<"T","a","s","k">>
sHighest == <<"H","i","g","h","e","s","t">>
sMedium == <<"M","e","d","i","u","m">>
sLow == <<"L","o","w">>
sLowest == <<"L","o","w","e","s","t">>

priority_mapping ==
    << << <<"c","r","i","t","i","c","a","l">>, sHighest >>,
       << <<"h","i","g","h">>, default_priority >>,
       << <<"m","e","d","i","u","m">>, sMedium >>,
       << <<"l","o","w">>, sLow >>,
       << <<"i","n","f","o">>, sLowest >> >>

issue_type_mapping ==
    << << <<"j","o","b","_","f","a","i","l","u","r","e">>, sIncident >>,
       << <<"s","y","s","t","e","m","_","a","l","e","r","t">>, sIncident >>,
       << <<"p","e","r","f","o","r","m","a","n","c","e">>, sTask >>,
       << <<"m","a","i","n","t","e","n","a","n","c","e">>, sTask >> >>

jsm_default_values ==
    << <<"request_type", <<"1","4">> >>,
       <<"affected_services", <<>> >>,
       <<"organizations", <<>> >> >>

\* custom_field_mappings of the template
MappingsTemplate ==
    << <<"vtom_object_name", "customfield_10055">>,
       <<"request_type", "customfield_10010">>,
       <<"affected_services", "customfield_10043">>,
       <<"organizations", "customfield_10002">> >>

\* the template without the object-name entry
MappingsNoObjectName == Tail(MappingsTemplate)

\* the template plus a vtom_job_name entry
MappingsJobName ==
    Append(MappingsTemplate, <<"vtom_job_name", "customfield_10056">>)

\* a configuration that gives request_type the id of vtom_object_name
MappingsSharedId ==
    << <<"vtom_object_name", "customfield_10055">>,
       <<"request_type", "customfield_10055">> >>

\* a configuration that leaves the id of vtom_object_name empty
MappingsEmptyId ==
    << <<"vtom_object_name", "">>,
       <<"request_type", "customfield_10010">> >>

MappingsChoices ==
    {MappingsTemplate, MappingsNoObjectName, MappingsJobName,
     MappingsSharedId, MappingsEmptyId, <<>>}

-----------------------------------------------------------------------------
(* String literals of Jira_CreateTicket.py *)

sDone == <<"d","o","n","e">>
sClosed == <<"c","l","o","s","e","d">>
sResolved == <<"r","e","s","o","l","v","e","d">>

sRelatedTo == <<" ","(","R","e","l","a","t","e","d"," ","t","o"," ">>
sCloseParen == <<")">>
sThisIssue ==
    <<"T","h","i","s"," ","i","s","s","u","e"," ","i","s"," ",
      "r","e","l","a","t","e","d"," ","t","o"," ",
      "e","x","i","s","t","i","n","g"," ","i","s","s","u","e"," ">>
sVtomObject == <<"\n","\n","V","T","O","M"," ","O","b","j","e","c","t",":"," ">>
sBlankLine == <<"\n","\n">>
sProcessedAt ==
    <<"V","T","O","M"," ","a","l","a","r","m"," ",
      "p","r","o","c","e","s","s","e","d"," ","a","t"," ">>

\* 'maxResults': 100 of the search request
maxResults == 100

-----------------------------------------------------------------------------
(* JiraIntegration.search_existing_issue, the in-memory filter *)

\* the value that stands for "no issue" where the code holds None
NoIssue == [key |-> None, status |-> None, fields |-> <<>>]

\* status.lower() in ['done', 'closed', 'resolved']
IsClosedNoLower(status) == status \in {sDone, sClosed, sResolved}
IsClosed(status) == Lower(status) \in {sDone, sClosed, sResolved}

\* vtom_value and vtom_value == object_name
ObjectMatchesNoCase(vtom_value, object_name) ==
    Truthy(vtom_value) /\ Lower(vtom_value) = Lower(object_name)
ObjectMatches(vtom_value, object_name) ==
    Truthy(vtom_value) /\ vtom_value = object_name

\* the body of the for loop: does this issue end the loop with a return?
Survives(issue, vtom_field_id, object_name) ==
    /\ ~IsClosed(issue.status)
    /\ ObjectMatches(DictGet(issue.fields, vtom_field_id), object_name)

\* the for loop over data.get('issues', []): the first issue that survives
RECURSIVE FilterFrom(_, _, _, _)
FilterFrom(issues, i, vtom_field_id, object_name) ==
    IF i > Len(issues) THEN NoIssue
    ELSE IF Survives(issues[i], vtom_field_id, object_name) THEN issues[i]
    ELSE FilterFrom(issues, i + 1, vtom_field_id, object_name)

RECURSIVE FilterLastFrom(_, _, _, _)
FilterLastFrom(issues, i, vtom_field_id, object_name) ==
    IF i < 1 THEN NoIssue
    ELSE IF Survives(issues[i], vtom_field_id, object_name) THEN issues[i]
    ELSE FilterLastFrom(issues, i - 1, vtom_field_id, object_name)

FilterIssuesOldest(issues, vtom_field_id, object_name) ==
    FilterLastFrom(issues, Len(issues), vtom_field_id, object_name)
FilterIssues(issues, vtom_field_id, object_name) ==
    FilterFrom(issues, 1, vtom_field_id, object_name)

-----------------------------------------------------------------------------
(* JiraIntegration.get_issue_type_id and get_priority_id, the name loops *)

\* for entry in entries: if entry['name'].lower() == name.lower(): return entry['id']
RECURSIVE FindFrom(_, _, _)
FindFrom(entries, i, name) ==
    IF i > Len(entries) THEN None
    ELSE IF Lower(entries[i].name) = Lower(name) THEN entries[i].id
    ELSE FindFrom(entries, i + 1, name)

FindByNameExact(entries, name) ==
    IF \E i \in 1..Len(entries) : entries[i].name = name
    THEN entries[CHOOSE i \in 1..Len(entries) :
                    /\ entries[i].name = name
                    /\ \A j \in 1..(i - 1) : entries[j].name /= name].id
    ELSE None
FindByNameAny(entries, name) ==
    IF entries = <<>> THEN None ELSE entries[1].id
FindByName(entries, name) == FindFrom(entries, 1, name)

-----------------------------------------------------------------------------
(* main(): value mapping and custom fields *)

MappedPriorityNoLower(a) ==
    IF Truthy(a.severity) /\ DictHas(priority_mapping, a.severity)
    THEN DictGet(priority_mapping, a.severity)
    ELSE a.priority

\* priority = args.priority, replaced by priority_mapping[args.severity.lower()]
MappedPriority(a) ==
    IF Truthy(a.severity) /\ DictHas(priority_mapping, Lower(a.severity))
    THEN DictGet(priority_mapping, Lower(a.severity))
    ELSE a.priority

\* issue_type = args.issueType, replaced by issue_type_mapping[args.alarmType.lower()]
MappedIssueType(a) ==
    IF Truthy(a.alarmType) /\ DictHas(issue_type_mapping, Lower(a.alarmType))
    THEN DictGet(issue_type_mapping, Lower(a.alarmType))
    ELSE a.issueType

\* vtom_field_id = custom_field_mappings.get('vtom_object_name') is truthy
FieldIdConfigured(m) ==
    DictHas(m, "vtom_object_name") /\ DictGet(m, "vtom_object_name") /= ""

\* if vtom_field_id: custom_fields[vtom_field_id] = args.objectName
WithObjectName(m, object_name) ==
    IF FieldIdConfigured(m)
    THEN DictSet(<<>>, DictGet(m, "vtom_object_name"), object_name)
    ELSE <<>>

\* for field_name, field_id in custom_field_mappings.items(): JSM defaults
RECURSIVE WithJsmDefaults(_, _, _)
WithJsmDefaults(cf, m, i) ==
    IF i > Len(m) THEN cf
    ELSE IF /\ DictHas(jsm_default_values, m[i][1])
            /\ Truthy(DictGet(jsm_default_values, m[i][1]))
         THEN WithJsmDefaults(
                  DictSet(cf, m[i][2], DictGet(jsm_default_values, m[i][1])),
                  m, i + 1)
         ELSE WithJsmDefaults(cf, m, i + 1)

\* for field_name, field_id in custom_field_mappings.items(): vtom_job_name
RECURSIVE WithJobName(_, _, _, _)
WithJobName(cf, m, i, object_name) ==
    IF i > Len(m) THEN cf
    ELSE IF m[i][1] = "vtom_job_name"
         THEN WithJobName(DictSet(cf, m[i][2], object_name), m, i + 1, object_name)
         ELSE WithJobName(cf, m, i + 1, object_name)

\* the custom_fields dict main() hands to create_issue
CustomFieldsNoObjectName(m, object_name) ==
    WithJobName(WithJsmDefaults(<<>>, m, 1), m, 1, object_name)
CustomFields(m, object_name) ==
    WithJobName(WithJsmDefaults(WithObjectName(m, object_name), m, 1),
                m, 1, object_name)

\* linked_summary
LinkedSummary(s, key) == s \o sRelatedTo \o key \o sCloseParen

\* linked_description
LinkedDescriptionNoKey(d, key, object_name) ==
    sThisIssue \o sVtomObject \o object_name \o sBlankLine \o d
LinkedDescription(d, key, object_name) ==
    sThisIssue \o key \o sVtomObject \o object_name \o sBlankLine \o d

-----------------------------------------------------------------------------
(* Inputs: the command line, the Jira instance, the file system *)

sJobA == <<"J","o","b","_","A">>
sJoba == <<"j","o","b","_","a">>
sProj == <<"P","R","O","J">>
sAlarmSummary == <<"J","o","b"," ","f","a","i","l","e","d">>
sAlarmDescription == <<"e","x","i","t"," ","1">>
sOutName == <<"o","u","t",".","l","o","g">>
sOutFile == <<"/","t","m","p","/","o">>
sErrName == <<"e","r","r",".","l","o","g">>
sErrFile == <<"/","t","m","p","/","e">>
sAssignee == <<"a","@","b",".","c">>

Digits == <<"1","2","3","4","5","6","7","8","9">>

\* the decimal numeral of n > 0
RECURSIVE Decimal(_)
Decimal(n) ==
    IF n < 10 THEN <<Digits[n]>>
    ELSE Decimal(n \div 10)
         \o <<IF n % 10 = 0 THEN "0" ELSE Digits[n % 10]>>

\* key of the n-th issue the project ever created
IssueKey(n) == sProj \o <<"-">> \o Decimal(n)

\* key the instance gives the issue this run creates
NewKey == IssueKey(Len(Digits))

ObjectNames == {sJobA, sJoba, <<>>}
FieldValues == {None, <<>>, sJobA, sJoba}
StatusNames ==
    { <<"O","p","e","n">>, <<"D","o","n","e">>,
      <<"C","L","O","S","E","D">>, <<"r","e","s","o","l","v","e","d">> }

\* one issue of the search response, with the fields the request asks for
Issue(n, status, value) ==
    [key |-> IssueKey(n), status |-> status,
     fields |-> IF value = None THEN <<>>
                ELSE << <<"customfield_10055", value>> >>]

\* an open issue with any field value, or a closed one whose field value
\* is the alarm's object name (or both are empty)
IssueKinds ==
    { <<st, fv>> \in StatusNames \X FieldValues :
         \/ st = <<"O","p","e","n">>
         \/ fv = sJobA
         \/ st = <<"D","o","n","e">> /\ fv = <<>> }

\* the search pages: newest issue first, at most MaxPage issues
Pages ==
    UNION { { [i \in 1..n |-> Issue(n - i + 1, k[i][1], k[i][2])] :
                k \in [1..n -> IssueKinds] } :
            n \in 0..MaxPage }

\* the two pages used where the page is not what varies
PagesSmall == { <<>>, <<Issue(1, <<"O","p","e","n">>, sJobA)>> }

Entry(name, id) == [name |-> name, id |-> id]

eSystemIncident == Entry(default_issue_type, <<"1","0","0","0","1">>)
eIncidentLower == Entry(<<"i","n","c","i","d","e","n","t">>, <<"1","0","0","0","2">>)
eIncident == Entry(sIncident, <<"1","0","0","0","3">>)
eTask == Entry(sTask, <<"1","0","0","0","4">>)
eHighUpper == Entry(<<"H","I","G","H">>, <<"2">>)
eHigh == Entry(default_priority, <<"3">>)
eHighest == Entry(sHighest, <<"1">>)

ProjectTypeChoices == { <<>>, <<eSystemIncident>>, <<eIncidentLower, eIncident>> }
AllTypeChoices == { <<>>, <<eTask, eIncident>> }
PriorityChoices == { <<>>, <<eHighest>>, <<eHighest, eHighUpper, eHigh>> }

DefaultRemote ==
    [issues |-> <<>>, projectTypes |-> <<eSystemIncident>>,
     allTypes |-> <<eTask, eIncident>>,
     priorities |-> <<eHighest, eHighUpper, eHigh>>]

\* the namespace argparse builds when only the required flags are given
DefaultArgs ==
    [projectKey |-> sProj, summary |-> sAlarmSummary,
     description |-> sAlarmDescription, objectName |-> sJobA,
     issueType |-> default_issue_type, priority |-> default_priority,
     assignee |-> None,
     outAttachmentName |-> None, outAttachmentFile |-> None,
     errorAttachmentName |-> None, errorAttachmentFile |-> None,
     severity |-> None, alarmType |-> None, debug |-> FALSE]

FileStates == {"missing", "unreadable", "ok"}

\* a log's (name, path, file state): the state only matters with a path
LogChoices(name, path) ==
    { <<n, None, "missing">> : n \in {None, <<>>, name} }
    \cup { <<n, path, f>> : n \in {None, <<>>, name}, f \in FileStates }

\* state shared by every initial state
InitLocals ==
    /\ pc = "import"
    /\ exitCode = 0
    /\ priority = None
    /\ issue_type = None
    /\ custom_fields = <<>>
    /\ existing_issue = NoIssue
    /\ summary = None
    /\ description = None
    /\ issue_type_id = None
    /\ priority_id = None
    /\ issue_key = None
    /\ calls = <<>>
    /\ printed = <<>>
    /\ created = <<>>

\* an open issue of the alarm's object, a closed one, an open one of another
kOpenMatch == << <<"O","p","e","n">>, sJobA >>
kClosedMatch == << <<"D","o","n","e">>, sJobA >>
kOther == << <<"O","p","e","n">>, sJoba >>

\* what stands out in the first maxResults issues of a large project: nothing,
\* or one issue at the given position among issues of another object
InPageChoices ==
    { <<0, kOther>>, <<1, kOpenMatch>>, <<maxResults, kOpenMatch>>,
      <<maxResults, kClosedMatch>> }

\* the issues of the project older than its maxResults most recent ones
OlderChoices ==
    { <<>>, <<kOther>>, <<kOpenMatch>>, <<kClosedMatch, kOpenMatch>> }

\* the issues of a large project, newest first, numbered from 101 upwards
LargeProject(inPage, older) ==
    [i \in 1..(maxResults + Len(older)) |->
        LET kind == IF i > maxResults THEN older[i - maxResults]
                    ELSE IF i = inPage[1] THEN inPage[2]
                    ELSE kOther
        IN  Issue(100 + maxResults + Len(older) - i + 1, kind[1], kind[2])]

\* the project holds maxResults issues or more
InitLarge ==
    /\ configPresent = TRUE
    /\ argsOk = TRUE
    /\ args = DefaultArgs
    /\ mappings = MappingsTemplate
    /\ \E p \in InPageChoices, o \in OlderChoices :
          remote = [DefaultRemote EXCEPT !.issues = LargeProject(p, o)]
    /\ files = [out |-> "missing", err |-> "missing"]

\* the page and the object name vary
InitDedup ==
    /\ configPresent = TRUE
    /\ argsOk = TRUE
    /\ \E o \in ObjectNames : args = [DefaultArgs EXCEPT !.objectName = o]
    /\ mappings = MappingsTemplate
    /\ \E p \in Pages : remote = [DefaultRemote EXCEPT !.issues = p]
    /\ files = [out |-> "missing", err |-> "missing"]

\* the configuration, the attachments and the mode vary
InitArgs ==
    /\ configPresent \in BOOLEAN
    /\ argsOk \in BOOLEAN
    /\ \E d \in BOOLEAN,
          o \in LogChoices(sOutName, sOutFile),
          e \in LogChoices(sErrName, sErrFile) :
          /\ args = [DefaultArgs EXCEPT
                        !.debug = d,
                        !.outAttachmentName = o[1], !.outAttachmentFile = o[2],
                        !.errorAttachmentName = e[1], !.errorAttachmentFile = e[2]]
          /\ files = [out |-> o[3], err |-> e[3]]
    /\ mappings \in MappingsChoices
    /\ \E p \in PagesSmall : remote = [DefaultRemote EXCEPT !.issues = p]

\* the names and the instance's issue types and priorities vary
InitLookup ==
    /\ configPresent = TRUE
    /\ argsOk = TRUE
    /\ \E it \in {default_issue_type, sTask},
          sev \in {None, <<"C","r","i","t","i","c","a","l">>, <<"n","o","n","e">>},
          al \in {None, <<"J","O","B","_","F","a","i","l","u","r","e">>, <<"o","t","h","e","r">>},
          asg \in {None, sAssignee}, pri \in {default_priority, sHighest} :
          args = [DefaultArgs EXCEPT !.issueType = it, !.severity = sev,
                                     !.alarmType = al, !.assignee = asg,
                                     !.priority = pri]
    /\ mappings = MappingsTemplate
    /\ \E p \in PagesSmall, pt \in ProjectTypeChoices, at \in AllTypeChoices,
          pr \in PriorityChoices :
          remote = [issues |-> p, projectTypes |-> pt, allTypes |-> at,
                    priorities |-> pr]
    /\ files = [out |-> "missing", err |-> "missing"]

\* config_content before generate_config_file ran
NoContent ==
    [jira_base_url |-> None, jira_auth_token |-> None,
     default_project_key |-> None, default_issue_type |-> None,
     default_priority |-> None, vtom_object_name |-> None,
     request_type |-> None, affected_services |-> None,
     organizations |-> None, request_type_id |-> None]

\* JiraConfigSetup.__init__
InitWizard ==
    /\ step = "setup_connection"
    /\ config = <<>>
    /\ wizardCalls = <<>>
    /\ wizardExit = 0
    /\ config_content = NoContent
    /\ saved = FALSE

Init ==
    InitLocals /\ InitWizard /\ (InitDedup \/ InitArgs \/ InitLookup \/ InitLarge)

-----------------------------------------------------------------------------
(* Remote calls and process exit *)

\* one entry of the call log; a call fills in the fields it sends
Call(op, outcome) ==
    [op |-> op, outcome |-> outcome, target |-> None, summary |-> None,
     description |-> None, issuetype |-> None, priority |-> None,
     assignee |-> None, fields |-> <<>>, outward |-> None, inward |-> None,
     filename |-> None]

\* response.raise_for_status() either passes or raises a RequestException:
\* one without a response (the transport failed), or one whose response
\* body is JSON, or one whose response body is not
Outcomes == {"ok", "no_response", "json_body", "text_body"}

\* if e.response is not None: try: print(e.response.json()) except: ...
\* where the except branch prints e.response.text, or passes
DetailLines(o, printsText) ==
    IF o = "json_body" THEN <<"Error details">>
    ELSE IF o = "text_body" /\ printsText THEN <<"Response content">>
    ELSE <<>>

\* sys.exit(code), or main() returning for code 0
Exit(code) ==
    /\ pc' = "exited"
    /\ exitCode' = code

Output(lines) == printed' = printed \o lines

SearchPageUncapped(issues) == issues

\* the page the instance returns for ORDER BY created DESC, maxResults 100
SearchPage(issues) ==
    SubSeq(issues, 1, IF Len(issues) < maxResults THEN Len(issues) ELSE maxResults)

-----------------------------------------------------------------------------
(* Actions *)

\* from config import (...), except ImportError: sys.exit(1)
ImportConfig ==
    /\ pc = "import"
    /\ IF configPresent
       THEN /\ pc' = "parse_args"
            /\ UNCHANGED <<exitCode, printed>>
       ELSE /\ Output(<<"Error: config.py not found">>)
            /\ Exit(1)
    /\ UNCHANGED wizardVars
    /\ UNCHANGED <<configPresent, argsOk, args, mappings, remote, files,
                   priority, issue_type, custom_fields, existing_issue,
                   summary, description, issue_type_id, priority_id,
                   issue_key, calls, created>>

ParseArgsIgnoreDebug ==
    /\ pc = "parse_args"
    /\ IF ~argsOk
       THEN Exit(2)
       ELSE /\ pc' = "prepare"
            /\ UNCHANGED exitCode
    /\ UNCHANGED wizardVars
    /\ UNCHANGED <<configPresent, argsOk, args, mappings, remote, files,
                   priority, issue_type, custom_fields, existing_issue,
                   summary, description, issue_type_id, priority_id,
                   issue_key, calls, printed, created>>

\* parser.parse_args(): a rejected command line ends the process with status 2
ParseArgs ==
    /\ pc = "parse_args"
    /\ IF ~argsOk
       THEN Exit(2)
       ELSE /\ pc' = IF args.debug THEN "debug_project" ELSE "prepare"
            /\ UNCHANGED exitCode
    /\ UNCHANGED wizardVars
    /\ UNCHANGED <<configPresent, argsOk, args, mappings, remote, files,
                   priority, issue_type, custom_fields, existing_issue,
                   summary, description, issue_type_id, priority_id,
                   issue_key, calls, printed, created>>

\* debug mode: GET project, print its issue types
DebugProject ==
    /\ pc = "debug_project"
    /\ \E o \in Outcomes :
          /\ calls' = Append(calls, [Call("get_project", o) EXCEPT
                                        !.target = args.projectKey])
          /\ Output(IF o = "ok" THEN <<"Available issue types:">>
                   ELSE <<"Error getting project info">>)
    /\ pc' = "debug_priority"
    /\ UNCHANGED wizardVars
    /\ UNCHANGED <<exitCode, configPresent, argsOk, args, mappings, remote,
                   files, priority, issue_type, custom_fields, existing_issue,
                   summary, description, issue_type_id, priority_id,
                   issue_key, created>>

\* debug mode: GET priority, print the priorities, return
DebugPriority ==
    /\ pc = "debug_priority"
    /\ \E o \in Outcomes :
          /\ calls' = Append(calls, Call("get_priorities", o))
          /\ Output(IF o = "ok" THEN <<"Available priorities:">>
                   ELSE <<"Error getting priorities">>)
    /\ Exit(0)
    /\ UNCHANGED wizardVars
    /\ UNCHANGED <<configPresent, argsOk, args, mappings, remote, files,
                   priority, issue_type, custom_fields, existing_issue,
                   summary, description, issue_type_id, priority_id,
                   issue_key, created>>

\* map priority and issue type, prepare custom fields
Prepare ==
    /\ pc = "prepare"
    /\ priority' = MappedPriority(args)
    /\ issue_type' = MappedIssueType(args)
    /\ custom_fields' = CustomFields(mappings, args.objectName)
    /\ pc' = "search"
    /\ UNCHANGED wizardVars
    /\ UNCHANGED <<exitCode, configPresent, argsOk, args, mappings, remote,
                   files, existing_issue, summary, description, issue_type_id,
                   priority_id, issue_key, calls, printed, created>>

\* what main() hands to create_issue once the search has returned
AfterSearch(found) ==
    /\ existing_issue' = found
    /\ IF found /= NoIssue
       THEN /\ summary' = LinkedSummary(args.summary, found.key)
            /\ description' =
                   LinkedDescription(args.description, found.key, args.objectName)
       ELSE /\ summary' = args.summary
            /\ description' = args.description
    /\ pc' = "lookup_issue_type"

SearchSkippedFatal ==
    /\ pc = "search"
    /\ ~FieldIdConfigured(mappings)
    /\ Output(<<"Warning: vtom_object_name custom field not configured">>)
    /\ Exit(1)
    /\ UNCHANGED wizardVars
    /\ UNCHANGED <<configPresent, argsOk, args, mappings, remote,
                   files, priority, issue_type, custom_fields, existing_issue,
                   summary, description, issue_type_id, priority_id,
                   issue_key, calls, created>>

\* search_existing_issue without a configured field: warning, no call
SearchSkipped ==
    /\ pc = "search"
    /\ ~FieldIdConfigured(mappings)
    /\ Output(<<"Warning: vtom_object_name custom field not configured">>)
    /\ AfterSearch(NoIssue)
    /\ UNCHANGED wizardVars
    /\ UNCHANGED <<exitCode, configPresent, argsOk, args, mappings, remote,
                   files, priority, issue_type, custom_fields, issue_type_id,
                   priority_id, issue_key, calls, created>>

SearchErrorFatal ==
    /\ pc = "search"
    /\ FieldIdConfigured(mappings)
    /\ \E o \in Outcomes :
          /\ calls' = Append(calls, [Call("search", o) EXCEPT
                                        !.target = args.projectKey])
          /\ IF o = "ok"
             THEN /\ Output(<<"Found existing issue">>)
                  /\ AfterSearch(FilterIssues(SearchPage(remote.issues),
                                              DictGet(mappings, "vtom_object_name"),
                                              args.objectName))
                  /\ UNCHANGED exitCode
             ELSE /\ Output(<<"Error searching for existing issues">>)
                  /\ Exit(1)
                  /\ UNCHANGED <<existing_issue, summary, description>>
    /\ UNCHANGED wizardVars
    /\ UNCHANGED <<configPresent, argsOk, args, mappings, remote,
                   files, priority, issue_type, custom_fields, issue_type_id,
                   priority_id, issue_key, created>>

\* search_existing_issue: POST search/jql, then filter the page in memory
Search ==
    /\ pc = "search"
    /\ FieldIdConfigured(mappings)
    /\ \E o \in Outcomes :
          /\ calls' = Append(calls, [Call("search", o) EXCEPT
                                        !.target = args.projectKey])
          /\ IF o = "ok"
             THEN LET found == FilterIssues(SearchPage(remote.issues),
                                            DictGet(mappings, "vtom_object_name"),
                                            args.objectName)
                  IN  /\ Output(IF found /= NoIssue
                               THEN <<"Found existing issue">>
                               ELSE <<"No existing open issue found">>)
                      /\ AfterSearch(found)
             ELSE /\ Output(<<"Error searching for existing issues">>
                            \o DetailLines(o, FALSE))
                  /\ AfterSearch(NoIssue)
    /\ UNCHANGED wizardVars
    /\ UNCHANGED <<exitCode, configPresent, argsOk, args, mappings, remote,
                   files, priority, issue_type, custom_fields, issue_type_id,
                   priority_id, issue_key, created>>

CreateFailedExitZero(lines) ==
    /\ Output(lines)
    /\ Exit(0)

CreateFailedContinues(lines) ==
    /\ Output(lines)
    /\ pc' = "comment"
    /\ UNCHANGED exitCode

\* create_issue returned None: main() reports it and calls sys.exit(1)
CreateFailed(lines) ==
    /\ Output(lines \o <<IF existing_issue /= NoIssue
                         THEN "Failed to create linked issue"
                         ELSE "Failed to create issue">>)
    /\ Exit(1)

\* create_issue -> get_issue_type_id: GET project, match on its issueTypes
LookupIssueType ==
    /\ pc = "lookup_issue_type"
    /\ \E o \in Outcomes :
          /\ calls' = Append(calls, [Call("get_project", o) EXCEPT
                                        !.target = args.projectKey])
          /\ IF o = "ok"
             THEN LET id == FindByName(remote.projectTypes, issue_type)
                  IN  /\ issue_type_id' = id
                      /\ pc' = IF id /= None THEN "lookup_priority"
                               ELSE "lookup_issue_type_all"
                      /\ UNCHANGED <<exitCode, printed>>
             ELSE /\ CreateFailed(<<"Error getting issue type ID",
                                    "Error: Issue type not found">>)
                  /\ UNCHANGED issue_type_id
    /\ UNCHANGED wizardVars
    /\ UNCHANGED <<configPresent, argsOk, args, mappings, remote, files,
                   priority, issue_type, custom_fields, existing_issue,
                   summary, description, priority_id, issue_key, created>>

\* get_issue_type_id, second request: GET issuetype, match on all issue types
LookupIssueTypeAll ==
    /\ pc = "lookup_issue_type_all"
    /\ \E o \in Outcomes :
          /\ calls' = Append(calls, Call("get_issue_types", o))
          /\ IF o = "ok"
             THEN LET id == FindByName(remote.allTypes, issue_type)
                  IN  /\ issue_type_id' = id
                      /\ IF id /= None
                         THEN /\ pc' = "lookup_priority"
                              /\ UNCHANGED <<exitCode, printed>>
                         ELSE CreateFailed(<<"Error: Issue type not found">>)
             ELSE /\ CreateFailed(<<"Error getting issue type ID",
                                    "Error: Issue type not found">>)
                  /\ UNCHANGED issue_type_id
    /\ UNCHANGED wizardVars
    /\ UNCHANGED <<configPresent, argsOk, args, mappings, remote, files,
                   priority, issue_type, custom_fields, existing_issue,
                   summary, description, priority_id, issue_key, created>>

\* create_issue -> get_priority_id: GET priority, match on the names
LookupPriority ==
    /\ pc = "lookup_priority"
    /\ \E o \in Outcomes :
          /\ calls' = Append(calls, Call("get_priorities", o))
          /\ IF o = "ok"
             THEN LET id == FindByName(remote.priorities, priority)
                  IN  /\ priority_id' = id
                      /\ IF id /= None
                         THEN /\ pc' = "create"
                              /\ UNCHANGED <<exitCode, printed>>
                         ELSE CreateFailed(<<"Error: Priority not found">>)
             ELSE /\ CreateFailed(<<"Error getting priority ID",
                                    "Error: Priority not found">>)
                  /\ UNCHANGED priority_id
    /\ UNCHANGED wizardVars
    /\ UNCHANGED <<configPresent, argsOk, args, mappings, remote, files,
                   priority, issue_type, custom_fields, existing_issue,
                   summary, description, issue_type_id, issue_key, created>>

\* issue_data of create_issue
IssueData(o) ==
    [Call("create", o) EXCEPT
        !.target = args.projectKey, !.issuetype = issue_type_id,
        !.summary = summary, !.description = description,
        !.priority = priority_id,
        !.assignee = IF Truthy(args.assignee) THEN args.assignee ELSE None,
        !.fields = custom_fields]

\* create_issue: POST issue; main() keeps result['key'] or exits 1
CreateIssue ==
    /\ pc = "create"
    /\ \E o \in Outcomes :
          /\ calls' = Append(calls, IssueData(o))
          /\ IF o = "ok"
             THEN /\ created' = Append(created,
                                  [key |-> NewKey, summary |-> summary,
                                   description |-> description,
                                   fields |-> custom_fields])
                  /\ issue_key' = NewKey
                  /\ Output(<<IF existing_issue /= NoIssue
                              THEN "Created linked issue"
                              ELSE "Created new issue">>)
                  /\ pc' = IF existing_issue /= NoIssue THEN "link"
                           ELSE "attach_out"
                  /\ UNCHANGED exitCode
             ELSE /\ CreateFailed(<<"Error creating issue">>
                                  \o DetailLines(o, TRUE))
                  /\ UNCHANGED <<created, issue_key>>
    /\ UNCHANGED wizardVars
    /\ UNCHANGED <<configPresent, argsOk, args, mappings, remote, files,
                   priority, issue_type, custom_fields, existing_issue,
                   summary, description, issue_type_id, priority_id>>

LinkIssuesFatal ==
    /\ pc = "link"
    /\ \E o \in {"ok", "status", "exception"} :
          /\ calls' = Append(calls,
                 [Call("link", o) EXCEPT !.inward = issue_key,
                                         !.outward = existing_issue.key])
          /\ IF o = "ok"
             THEN /\ Output(<<"Linked">>)
                  /\ pc' = "attach_out"
                  /\ UNCHANGED exitCode
             ELSE /\ Output(<<"Warning: Could not create link between issues">>)
                  /\ Exit(1)
    /\ UNCHANGED wizardVars
    /\ UNCHANGED <<configPresent, argsOk, args, mappings, remote, files,
                   priority, issue_type, custom_fields, existing_issue,
                   summary, description, issue_type_id, priority_id,
                   issue_key, created>>

\* what the issueLink request can come to: status 201, another status, an exception
LinkOutcomes == {"ok", "status", "exception"}

\* link_data
LinkData(o) ==
    [Call("link", o) EXCEPT !.inward = issue_key,
                            !.outward = existing_issue.key]

\* main(): POST issueLink inside try / bare except
LinkIssues ==
    /\ pc = "link"
    /\ \E o \in LinkOutcomes :
          /\ calls' = Append(calls, LinkData(o))
          /\ Output(CASE o = "ok" -> <<"Linked">>
                      [] o = "status" -> <<>>
                      [] o = "exception" -> <<"Warning: Could not create link between issues">>)
    /\ pc' = "attach_out"
    /\ UNCHANGED wizardVars
    /\ UNCHANGED <<exitCode, configPresent, argsOk, args, mappings, remote,
                   files, priority, issue_type, custom_fields, existing_issue,
                   summary, description, issue_type_id, priority_id,
                   issue_key, created>>

AttachmentRequestedEither(file_path, filename) ==
    Truthy(file_path) \/ Truthy(filename)

\* if file and name: of main()
AttachmentRequested(file_path, filename) == Truthy(file_path) /\ Truthy(filename)

AttachFatal(file_path, filename, fileState, okLine, next) ==
    /\ IF ~AttachmentRequested(file_path, filename)
       THEN /\ UNCHANGED <<calls, printed>>
            /\ pc' = next
       ELSE CASE fileState = "missing" ->
                   /\ Output(<<"Warning: Attachment file does not exist">>)
                   /\ UNCHANGED calls
                   /\ pc' = next
              [] fileState = "unreadable" ->
                   /\ Output(<<"Error reading file">>)
                   /\ UNCHANGED calls
                   /\ pc' = next
              [] fileState = "ok" ->
                   \E o \in Outcomes :
                      /\ calls' = Append(calls, [Call("attach", o) EXCEPT
                                                    !.target = issue_key,
                                                    !.filename = filename])
                      /\ Output(IF o = "ok" THEN <<okLine>>
                                ELSE <<"Error adding attachment">>
                                     \o DetailLines(o, TRUE))
                      /\ pc' = IF o = "ok" THEN next ELSE "exited"
    /\ UNCHANGED wizardVars
    /\ UNCHANGED <<exitCode, configPresent, argsOk, args, mappings, remote,
                   files, priority, issue_type, custom_fields, existing_issue,
                   summary, description, issue_type_id, priority_id,
                   issue_key, created>>

\* main() + add_attachment for one log: exists check, open, POST attachments
Attach(file_path, filename, fileState, okLine, next) ==
    /\ IF ~AttachmentRequested(file_path, filename)
       THEN UNCHANGED <<calls, printed>>
       ELSE CASE fileState = "missing" ->
                   /\ Output(<<"Warning: Attachment file does not exist">>)
                   /\ UNCHANGED calls
              [] fileState = "unreadable" ->
                   /\ Output(<<"Error reading file">>)
                   /\ UNCHANGED calls
              [] fileState = "ok" ->
                   \E o \in Outcomes :
                      /\ calls' = Append(calls, [Call("attach", o) EXCEPT
                                                    !.target = issue_key,
                                                    !.filename = filename])
                      /\ Output(IF o = "ok" THEN <<okLine>>
                                ELSE <<"Error adding attachment">>
                                     \o DetailLines(o, TRUE))
    /\ pc' = next
    /\ UNCHANGED wizardVars
    /\ UNCHANGED <<exitCode, configPresent, argsOk, args, mappings, remote,
                   files, priority, issue_type, custom_fields, existing_issue,
                   summary, description, issue_type_id, priority_id,
                   issue_key, created>>

\* the output log
AttachOutput ==
    /\ pc = "attach_out"
    /\ Attach(args.outAttachmentFile, args.outAttachmentName, files.out,
              "Added output log attachment", "attach_err")

\* the error log
AttachError ==
    /\ pc = "attach_err"
    /\ Attach(args.errorAttachmentFile, args.errorAttachmentName, files.err,
              "Added error log attachment", "comment")

AddCommentToExisting ==
    /\ pc = "comment"
    /\ \E o \in Outcomes :
          /\ calls' = Append(calls, [Call("comment", o) EXCEPT
                                        !.target = IF existing_issue /= NoIssue
                                                  THEN existing_issue.key
                                                  ELSE issue_key,
                                        !.description = sProcessedAt])
          /\ Output(IF o = "ok" THEN <<"Added timestamp comment">>
                    ELSE <<"Error adding comment">>)
    /\ Exit(0)
    /\ UNCHANGED wizardVars
    /\ UNCHANGED <<configPresent, argsOk, args, mappings, remote, files,
                   priority, issue_type, custom_fields, existing_issue,
                   summary, description, issue_type_id, priority_id,
                   issue_key, created>>

\* add_comment with the timestamp line; main() then returns
AddComment ==
    /\ pc = "comment"
    /\ \E o \in Outcomes :
          /\ calls' = Append(calls, [Call("comment", o) EXCEPT
                                        !.target = issue_key,
                                        !.description = sProcessedAt])
          /\ Output(IF o = "ok" THEN <<"Added timestamp comment">>
                    ELSE <<"Error adding comment">>)
    /\ Exit(0)
    /\ UNCHANGED wizardVars
    /\ UNCHANGED <<configPresent, argsOk, args, mappings, remote, files,
                   priority, issue_type, custom_fields, existing_issue,
                   summary, description, issue_type_id, priority_id,
                   issue_key, created>>

Next ==
    \/ ImportConfig
    \/ ParseArgs
    \/ DebugProject
    \/ DebugPriority
    \/ Prepare
    \/ SearchSkipped
    \/ Search
    \/ LookupIssueType
    \/ LookupIssueTypeAll
    \/ LookupPriority
    \/ CreateIssue
    \/ LinkIssues
    \/ AttachOutput
    \/ AttachError
    \/ AddComment

Spec == Init /\ [][Next]_vars

-----------------------------------------------------------------------------
(* setup_config.py: the interactive setup wizard *)

\* str.rstrip('/')
RECURSIVE RStripSlash(_)
RStripSlash(s) ==
    IF s /= <<>> /\ s[Len(s)] = "/"
    THEN RStripSlash(SubSeq(s, 1, Len(s) - 1))
    ELSE s

\* f"{value}" of a string or None
Str(v) == IF v = None THEN <<"N","o","n","e">> ELSE v

\* dict.get(key, default)
DictGetOr(d, k, default) == IF DictHas(d, k) THEN DictGet(d, k) ELSE default

\* literals of setup_config.py
sCustomfield == <<"c","u","s","t","o","m","f","i","e","l","d","_">>
sProjDefault == <<"P","R","O","J">>
sHigh == <<"H","i","g","h">>
sFourteen == <<"1","4">>
cf10055 == sCustomfield \o <<"1","0","0","5","5">>
cf10010 == sCustomfield \o <<"1","0","0","1","0">>
cf10043 == sCustomfield \o <<"1","0","0","4","3">>
cf10002 == sCustomfield \o <<"1","0","0","0","2">>

VtomTerms == << <<"v","t","o","m">>, <<"o","b","j","e","c","t">>,
                <<"n","a","m","e">> >>
RequestTerms == << <<"r","e","q","u","e","s","t">>, <<"t","y","p","e">> >>
ServicesTerms == << <<"a","f","f","e","c","t","e","d">>,
                    <<"s","e","r","v","i","c","e">>,
                    <<"s","e","r","v","i","c","e","s">> >>
OrganizationsTerms == << <<"o","r","g","a","n","i","z","a","t","i","o","n">>,
                         <<"o","r","g","a","n","i","s","a","t","i","o","n","s">> >>

\* field_id.startswith('customfield_')
IsCustomField(field_id) ==
    /\ Len(field_id) >= Len(sCustomfield)
    /\ SubSeq(field_id, 1, Len(sCustomfield)) = sCustomfield

\* the fields loop of get_custom_fields over one issue type
RECURSIVE AddCustomFields(_, _)
AddCustomFields(d, fields) ==
    IF fields = <<>> THEN d
    ELSE AddCustomFields(IF IsCustomField(Head(fields)[1])
                         THEN DictSet(d, Head(fields)[1], Head(fields)[2])
                         ELSE d,
                         Tail(fields))

\* the issuetypes loop of get_custom_fields: if it['name'] == issue_type
RECURSIVE CustomFieldsOf(_, _, _)
CustomFieldsOf(d, issuetypes, name) ==
    IF issuetypes = <<>> THEN d
    ELSE CustomFieldsOf(IF Head(issuetypes).name = name
                        THEN AddCustomFields(d, Head(issuetypes).fields)
                        ELSE d,
                        Tail(issuetypes), name)

\* any(term.lower() in field_name_lower for term in search_terms)
AnyTermIn(field_name, search_terms) ==
    \E t \in 1..Len(search_terms) :
        Contains(Lower(field_name), Lower(search_terms[t]))

\* find_custom_field_by_name: the id of the first field a term occurs in
find_custom_field_by_name(fields, search_terms) ==
    IF \E i \in 1..Len(fields) : AnyTermIn(fields[i][2], search_terms)
    THEN LET first == CHOOSE i \in 1..Len(fields) :
                        /\ AnyTermIn(fields[i][2], search_terms)
                        /\ \A j \in 1..(i - 1) :
                              ~AnyTermIn(fields[j][2], search_terms)
         IN  fields[first][1]
    ELSE None

\* what the user types and what the instance answers
sUrl == <<"h","t","t","p","s",":","/","/","j">>
UrlInputs == {sUrl, sUrl \o <<"/">>, sUrl \o <<"/","/">>}
sToken == <<"d","G","9","r">>
sEncoded == <<"Z","W","1","h">>
sOps == <<"O","P","S">>
ProjectLists == {<<>>, <<sProj>>, <<sProj, sOps>>}
IssueTypeLists == {<<>>, <<sTask, default_issue_type>>}
PriorityLists == {<<>>, <<sHighest, sLow>>}
sSummaryField == <<"s","u","m","m","a","r","y">>
sSummaryName == <<"S","u","m","m","a","r","y">>
sVtomFieldName == <<"V","T","O","M"," ","O","b","j","e","c","t">>
sRequestFieldName == <<"R","e","q","u","e","s","t"," ","T","y","p","e">>
sTeamFieldName == <<"T","e","a","m">>
cf10100 == sCustomfield \o <<"1","0","1","0","0">>
cf10200 == sCustomfield \o <<"1","0","2","0","0">>
cf10300 == sCustomfield \o <<"1","0","3","0","0">>
FieldLists ==
    { <<>>,
      << <<sSummaryField, sSummaryName>> >>,
      << <<sSummaryField, sSummaryName>>, <<cf10300, sTeamFieldName>> >>,
      << <<cf10300, sTeamFieldName>>, <<cf10100, sVtomFieldName>>,
         <<cf10200, sRequestFieldName>> >> }
\* createmeta answers: the project's Task and Incident types share a screen
CreateMeta(fields) ==
    << [name |-> sTask, fields |-> fields],
       [name |-> sIncident, fields |-> fields] >>
sSeven == <<"7">>
sNine == <<"9">>
RequestTypeLists == {<<>>, <<sSeven, sNine>>}

\* requests raises a RequestException, or the call answers
WizardOutcomes == {"ok", "error"}

WizardCall(op, outcome, answer) ==
    [op |-> op, outcome |-> outcome, answer |-> answer]

\* sys.exit(code), or run() returning for code 0
WizardExit(code) ==
    /\ step' = "exited"
    /\ wizardExit' = code

\* setup_connection: if not self.test_connection(): sys.exit(1)
SetupConnectionChecked(url, token, o) ==
    IF o = "ok"
    THEN /\ config' = DictSet(DictSet(config, "jira_base_url", RStripSlash(url)),
                              "jira_auth_token", token)
         /\ step' = "setup_project"
         /\ UNCHANGED wizardExit
    ELSE /\ WizardExit(1)
         /\ UNCHANGED config

\* Step 1: the URL and the token are read, then GET /rest/api/3/myself
SetupConnection ==
    /\ step = "setup_connection"
    /\ \E url \in UrlInputs, use_manual \in BOOLEAN, o \in WizardOutcomes :
          /\ wizardCalls' = Append(wizardCalls, WizardCall("myself", o, <<>>))
          /\ SetupConnectionChecked(url,
                                    IF use_manual THEN sToken ELSE sEncoded, o)
    /\ UNCHANGED <<config_content, saved>>
    /\ UNCHANGED mainVars

\* Step 2: GET /rest/api/3/project, then the user picks one
SetupProject ==
    /\ step = "setup_project"
    /\ \E o \in WizardOutcomes, answer \in ProjectLists :
          LET projects == IF o = "ok" THEN answer ELSE <<>>
          IN  /\ wizardCalls' = Append(wizardCalls,
                                       WizardCall("get_projects", o, projects))
              /\ IF projects = <<>>
                 THEN /\ WizardExit(1)
                      /\ UNCHANGED config
                 ELSE /\ \E choice \in 1..Len(projects) :
                            config' = DictSet(config, "default_project_key",
                                              projects[choice])
                      /\ step' = "setup_issue_type"
                      /\ UNCHANGED wizardExit
    /\ UNCHANGED <<config_content, saved>>
    /\ UNCHANGED mainVars

SetupIssueTypeEmptyAborts ==
    /\ WizardExit(1)
    /\ UNCHANGED config

\* setup_issue_type: if not issue_types: the default is "Incident"
SetupIssueTypeEmpty ==
    /\ config' = DictSet(config, "default_issue_type", sIncident)
    /\ step' = "setup_priority"
    /\ UNCHANGED wizardExit

\* Step 3: GET /rest/api/3/project/{key}, then the user picks one
SetupIssueType ==
    /\ step = "setup_issue_type"
    /\ \E o \in WizardOutcomes, answer \in IssueTypeLists :
          LET issue_types == IF o = "ok" THEN answer ELSE <<>>
          IN  /\ wizardCalls' = Append(wizardCalls,
                                       WizardCall("get_issue_types", o,
                                                  issue_types))
              /\ IF issue_types = <<>>
                 THEN SetupIssueTypeEmpty
                 ELSE /\ \E choice \in 1..Len(issue_types) :
                            config' = DictSet(config, "default_issue_type",
                                              issue_types[choice])
                      /\ step' = "setup_priority"
                      /\ UNCHANGED wizardExit
    /\ UNCHANGED <<config_content, saved>>
    /\ UNCHANGED mainVars

\* Step 4: GET /rest/api/3/priority, then the user picks one
SetupPriority ==
    /\ step = "setup_priority"
    /\ \E o \in WizardOutcomes, answer \in PriorityLists :
          LET priorities == IF o = "ok" THEN answer ELSE <<>>
          IN  /\ wizardCalls' = Append(wizardCalls,
                                       WizardCall("get_priorities", o,
                                                  priorities))
              /\ IF priorities = <<>>
                 THEN config' = DictSet(config, "default_priority", sHigh)
                 ELSE \E choice \in 1..Len(priorities) :
                         config' = DictSet(config, "default_priority",
                                           priorities[choice])
    /\ step' = "setup_custom_fields"
    /\ UNCHANGED <<wizardExit, config_content, saved>>
    /\ UNCHANGED mainVars

\* the four config entries setup_custom_fields writes
WithFieldIds(d, vtom_field, fields) ==
    DictSet(DictSet(DictSet(DictSet(d,
        "vtom_object_name_field", vtom_field),
        "request_type_field", find_custom_field_by_name(fields, RequestTerms)),
        "affected_services_field",
            find_custom_field_by_name(fields, ServicesTerms)),
        "organizations_field",
            find_custom_field_by_name(fields, OrganizationsTerms))

\* Step 5: GET /rest/api/3/issue/createmeta, then the object-name field is
\* suggested or picked (0 is "None / Skip") and the others are searched for
SetupCustomFields ==
    /\ step = "setup_custom_fields"
    /\ \E o \in WizardOutcomes, answer \in FieldLists, use_suggested \in BOOLEAN :
          LET fields == IF o = "ok"
                        THEN CustomFieldsOf(<<>>, CreateMeta(answer),
                                            DictGet(config, "default_issue_type"))
                        ELSE <<>>
              suggested == find_custom_field_by_name(fields, VtomTerms)
          IN  /\ wizardCalls' = Append(wizardCalls,
                                       WizardCall("get_custom_fields", o, fields))
              /\ IF fields = <<>>
                 THEN UNCHANGED config
                 ELSE \E choice \in 0..Len(fields) :
                         config' = WithFieldIds(config,
                                       IF suggested /= None /\ use_suggested
                                       THEN suggested
                                       ELSE IF choice = 0 THEN None
                                       ELSE fields[choice][1],
                                       fields)
    /\ step' = "setup_request_type"
    /\ UNCHANGED <<wizardExit, config_content, saved>>
    /\ UNCHANGED mainVars

\* get_request_types: GET servicedesk, then GET requesttype of each service
\* desk, whose answer counts only with status 200
RequestTypeOutcomes == {"ok", "status", "error"}

\* Step 6: skipped without a request type field; else the user picks one
SetupRequestType ==
    /\ step = "setup_request_type"
    /\ IF ~Truthy(DictGet(config, "request_type_field"))
       THEN UNCHANGED <<config, wizardCalls>>
       ELSE \E o \in WizardOutcomes, desks \in {<<>>, <<sSeven>>},
               rt \in RequestTypeOutcomes, answer \in RequestTypeLists :
               LET service_desks == IF o = "ok" THEN desks ELSE <<>>
                   request_types ==
                       IF service_desks /= <<>> /\ rt = "ok" THEN answer
                       ELSE <<>>
               IN  /\ wizardCalls' =
                          wizardCalls
                          \o <<WizardCall("servicedesk", o, service_desks)>>
                          \o (IF service_desks = <<>> THEN <<>>
                              ELSE <<WizardCall("requesttype", rt,
                                                request_types)>>)
                   /\ IF request_types = <<>>
                      THEN UNCHANGED config
                      ELSE \E choice \in 1..Len(request_types) :
                              config' = DictSet(config,
                                                "default_request_type_id",
                                                request_types[choice])
    /\ step' = "generate_config_file"
    /\ UNCHANGED <<wizardExit, config_content, saved>>
    /\ UNCHANGED mainVars

\* the values the f-string of generate_config_file formats
ConfigContent(d) ==
    [jira_base_url |-> Str(DictGetOr(d, "jira_base_url", <<>>)),
     jira_auth_token |-> Str(DictGetOr(d, "jira_auth_token", <<>>)),
     default_project_key |-> Str(DictGetOr(d, "default_project_key",
                                           sProjDefault)),
     default_issue_type |-> Str(DictGetOr(d, "default_issue_type", sIncident)),
     default_priority |-> Str(DictGetOr(d, "default_priority", sHigh)),
     vtom_object_name |-> Str(DictGetOr(d, "vtom_object_name_field", cf10055)),
     request_type |-> Str(DictGetOr(d, "request_type_field", cf10010)),
     affected_services |-> Str(DictGetOr(d, "affected_services_field",
                                         cf10043)),
     organizations |-> Str(DictGetOr(d, "organizations_field", cf10002)),
     request_type_id |-> Str(DictGetOr(d, "default_request_type_id",
                                       sFourteen))]

\* Step 7: the content is formatted and printed, saved on 'y'; run() returns
GenerateConfigFile ==
    /\ step = "generate_config_file"
    /\ config_content' = ConfigContent(config)
    /\ saved' \in BOOLEAN
    /\ WizardExit(0)
    /\ UNCHANGED <<config, wizardCalls>>
    /\ UNCHANGED mainVars

\* except KeyboardInterrupt: sys.exit(0), the user pressing Ctrl-C at a step
Interrupt ==
    /\ step /= "exited"
    /\ WizardExit(0)
    /\ UNCHANGED <<config, wizardCalls, config_content, saved>>
    /\ UNCHANGED mainVars

\* the wizard runs where no config.py exists yet
InitSetup ==
    /\ InitLocals
    /\ InitWizard
    /\ configPresent = FALSE
    /\ argsOk = TRUE
    /\ args = DefaultArgs
    /\ mappings = MappingsTemplate
    /\ remote = DefaultRemote
    /\ files = [out |-> "missing", err |-> "missing"]

NextSetup ==
    \/ SetupConnection
    \/ SetupProject
    \/ SetupIssueType
    \/ SetupPriority
    \/ SetupCustomFields
    \/ SetupRequestType
    \/ GenerateConfigFile
    \/ Interrupt

SpecSetup == InitSetup /\ [][NextSetup]_vars

-----------------------------------------------------------------------------
(* Vocabulary of the properties, stated without the code's operators *)

\* the two letters are the same letter, whatever their case
SameLetter(a, b) ==
    \/ a = b
    \/ \E i \in 1..Len(UpperChars) :
          {a, b} = {UpperChars[i], LowerChars[i]}

EqualsIgnoreCase(s, t) ==
    /\ Len(s) = Len(t)
    /\ \A i \in 1..Len(s) : SameLetter(s[i], t[i])

\* the status name is "done", "closed" or "resolved" in some letter case
ClosedFamily(status) ==
    \E w \in {sDone, sClosed, sResolved} : EqualsIgnoreCase(status, w)

\* the calls of the run with the given operation
CallsOf(op) == {i \in 1..Len(calls) : calls[i].op = op}

Exited == pc = "exited"

\* the run got past import, argument parsing and the debug branch
Ran == configPresent /\ argsOk /\ ~args.debug

\* the run issued the search call and the call succeeded
SearchSucceeded == \E i \in CallsOf("search") : calls[i].outcome = "ok"
SearchFailed == \E i \in CallsOf("search") : calls[i].outcome /= "ok"

\* the page the search call returns
Page == SearchPage(remote.issues)

\* value of the object-name custom field of an issue of the page
ObjectNameOf(issue) == DictGet(issue.fields, "customfield_10055")

\* positions of the open tickets whose object name equals the alarm's
EqualOpen ==
    {i \in 1..Len(Page) : /\ ~ClosedFamily(Page[i].status)
                          /\ ObjectNameOf(Page[i]) = args.objectName}

\* the same, leaving out tickets whose object-name field is empty
Candidates ==
    {i \in EqualOpen : ObjectNameOf(Page[i]) /= <<>>}

\* position of the most recently created ticket among the given positions
Newest(S) == CHOOSE i \in S : \A j \in S : i <= j

\* the call mentions the key: as an endpoint, as its target or in its text
References(c, key) ==
    \/ c.target = key
    \/ c.outward = key
    \/ c.inward = key
    \/ Contains(c.summary, key)
    \/ Contains(c.description, key)

CreateSucceeded == \E i \in CallsOf("create") : calls[i].outcome = "ok"

-----------------------------------------------------------------------------
(* C1: linked outcome *)

\* the linked outcome as C1 describes it, for the ticket at position m
LinkedOutcome(m) ==
    /\ Len(created) = 1
    /\ Contains(created[1].description, Page[m].key)
    /\ Cardinality(CallsOf("link")) = 1
    /\ \A i \in CallsOf("link") :
          /\ calls[i].outward = Page[m].key
          /\ calls[i].inward = created[1].key

\* no call of the run references a matching ticket older than position m
OlderIgnored(S, m) ==
    \A j \in S \ {m} : \A i \in 1..Len(calls) : ~References(calls[i], Page[j].key)

\* C1 as stated: whenever the searched page holds N>0 open tickets matching
\* the alarm's object name, the run creates exactly one ticket whose
\* description contains the newest match's key, attempts exactly one link
\* call (outward that key, inward the new ticket), and no call references an
\* older match.
C1_AsStated ==
    (Exited /\ Ran /\ SearchSucceeded /\ Candidates /= {}) =>
        /\ LinkedOutcome(Newest(Candidates))
        /\ OlderIgnored(Candidates, Newest(Candidates))

\* C1 (amended): when the search call succeeded and the page holds N>0 open
\* tickets whose object-name field is non-empty and equal to the alarm's
\* object name, the run issues at most one create call and its description
\* contains the key of the newest such ticket; if that call succeeds exactly
\* one ticket is created and exactly one link call is attempted, outward the
\* newest match and inward the new ticket; if creation fails (unresolved
\* issue type or priority, or a failed create call) no ticket is created, no
\* link call is made and the exit code is 1; no call of the run references
\* an older match.
C1_LinkNewestMatch ==
    (Exited /\ Ran /\ SearchSucceeded /\ Candidates /= {}) =>
        LET m == Newest(Candidates) IN
        /\ Cardinality(CallsOf("create")) <= 1
        /\ \A i \in CallsOf("create") :
              Contains(calls[i].description, Page[m].key)
        /\ IF CreateSucceeded
           THEN LinkedOutcome(m) /\ exitCode = 0
           ELSE /\ created = <<>>
                /\ CallsOf("link") = {}
                /\ exitCode = 1
        /\ OlderIgnored(Candidates, m)

\* a finished run that linked against the newest of at least two matches
C1_Witness ==
    /\ Exited /\ Ran /\ SearchSucceeded
    /\ Cardinality(Candidates) >= 2
    /\ Len(created) = 1
    /\ \E i \in CallsOf("link") :
          calls[i].outward = Page[Newest(Candidates)].key

-----------------------------------------------------------------------------
(* C2: fresh outcome *)

\* no open ticket anywhere in the page carries the alarm's object name
NoMatch == EqualOpen = {}

\* every create call and every created ticket carries the alarm's own text
OwnText ==
    /\ \A i \in CallsOf("create") :
          /\ calls[i].summary = args.summary
          /\ calls[i].description = args.description
    /\ \A i \in 1..Len(created) :
          /\ created[i].summary = args.summary
          /\ created[i].description = args.description

\* C2 as stated: whenever the alarm's object name matches zero open tickets,
\* the run creates exactly one ticket with the alarm's own summary and
\* description, and makes no link call.
C2_AsStated ==
    (Exited /\ Ran /\ NoMatch) =>
        /\ Len(created) = 1
        /\ OwnText
        /\ CallsOf("link") = {}

\* C2 (amended): when the alarm's object name matches zero open tickets, the
\* run issues at most one create call, carrying the alarm's own summary and
\* description unmodified, and no link call; exactly one ticket is created
\* when the issue type and the priority resolve and the create call succeeds
\* (exit code 0), and none otherwise (exit code 1).
C2_FreshTicket ==
    (Exited /\ Ran /\ NoMatch) =>
        /\ Cardinality(CallsOf("create")) <= 1
        /\ OwnText
        /\ CallsOf("link") = {}
        /\ IF CreateSucceeded
           THEN Len(created) = 1 /\ exitCode = 0
           ELSE created = <<>> /\ exitCode = 1

\* a finished run that created a fresh ticket although the page holds
\* tickets: closed ones, or ones for another object name
C2_Witness ==
    /\ Exited /\ Ran /\ NoMatch /\ SearchSucceeded
    /\ Len(Page) >= 1
    /\ Len(created) = 1
    /\ created[1].summary = args.summary

-----------------------------------------------------------------------------
(* C3: closed tickets are never dedup candidates *)

\* C3: a ticket of the page whose status name is "done", "closed" or
\* "resolved" in any letter case is never the value search_existing_issue
\* returns nor the outward issue of a link call, whatever its object name
\* and its position.
C3_ClosedNeverSelected ==
    \A i \in 1..Len(Page) :
        ClosedFamily(Page[i].status) =>
            /\ existing_issue /= Page[i]
            /\ \A c \in CallsOf("link") : calls[c].outward /= Page[i].key

\* the newest ticket is closed and carries the alarm's object name, and the
\* run linked against the open one behind it
C3_Witness ==
    /\ Exited /\ SearchSucceeded
    /\ Len(Page) >= 2
    /\ ClosedFamily(Page[1].status)
    /\ Page[1].status \notin {sDone, sClosed, sResolved}
    /\ ObjectNameOf(Page[1]) = args.objectName
    /\ existing_issue = Page[2]
    /\ \E c \in CallsOf("link") : calls[c].outward = Page[2].key

-----------------------------------------------------------------------------
(* C4: exact object-name matching *)

\* what the search returned, once it has
Selected(S) == IF S = {} THEN NoIssue ELSE Page[Newest(S)]

\* C4 as stated: a non-closed candidate survives the filter if and only if
\* its object-name value equals the alarm's object name exactly.
C4_AsStated ==
    SearchSucceeded => existing_issue = Selected(EqualOpen)

\* C4 (amended): a non-closed candidate survives the filter if and only if
\* its object-name value is non-empty and exactly (case-sensitively) equal
\* to the alarm's object name; a candidate whose value differs only in
\* letter case is never selected.
C4_ExactMatch ==
    SearchSucceeded =>
        /\ existing_issue = Selected(Candidates)
        /\ \A i \in 1..Len(Page) :
              (/\ EqualsIgnoreCase(ObjectNameOf(Page[i]), args.objectName)
               /\ ObjectNameOf(Page[i]) /= args.objectName)
              => existing_issue /= Page[i]

\* the newest open ticket differs from the alarm's object name only in
\* letter case, and the search returned the exact match behind it
C4_Witness ==
    /\ SearchSucceeded
    /\ Len(Page) >= 2
    /\ ~ClosedFamily(Page[1].status)
    /\ EqualsIgnoreCase(ObjectNameOf(Page[1]), args.objectName)
    /\ ObjectNameOf(Page[1]) /= args.objectName
    /\ existing_issue = Page[2]

-----------------------------------------------------------------------------
(* C5: created tickets carry the object name *)

\* the mapping has an entry for the object-name field, and it names a field
ObjectNameMapped ==
    \E i \in 1..Len(mappings) :
        mappings[i][1] = "vtom_object_name" /\ mappings[i][2] /= ""

\* another mapped field with a non-empty JSM default shares its field id
ObjectNameIdShared ==
    \E i \in 1..Len(mappings) :
        /\ mappings[i][1] /= "vtom_object_name"
        /\ mappings[i][2] = DictGet(mappings, "vtom_object_name")
        /\ DictHas(jsm_default_values, mappings[i][1])
        /\ DictGet(jsm_default_values, mappings[i][1]) /= <<>>

\* the ticket carries the object-name field, set to the alarm's object name
CarriesObjectName(t) ==
    /\ ObjectNameMapped
    /\ \E i \in 1..Len(t.fields) :
          /\ t.fields[i][1] = DictGet(mappings, "vtom_object_name")
          /\ t.fields[i][2] = args.objectName

\* C5 as stated: every ticket created by any run carries the object-name
\* custom field set to the alarm's object name.
C5_AsStated ==
    \A i \in 1..Len(created) : CarriesObjectName(created[i])

\* C5 (amended): every ticket created by a run whose field mapping has a
\* non-empty entry for the object-name field, with a field id that no other
\* mapped field with a non-empty default value shares, carries the
\* object-name custom field set to the alarm's object name.
C5_CarriesObjectName ==
    (ObjectNameMapped /\ ~ObjectNameIdShared) =>
        \A i \in 1..Len(created) : CarriesObjectName(created[i])

\* a linked ticket was created under a mapping that has the entry
C5_Witness ==
    /\ ObjectNameMapped /\ ~ObjectNameIdShared
    /\ Len(created) = 1
    /\ existing_issue /= NoIssue
    /\ CarriesObjectName(created[1])

-----------------------------------------------------------------------------
(* C6: unresolved issue type or priority *)

\* no entry of the list has the name, in any letter case
NoEntryNamed(entries, name) ==
    \A i \in 1..Len(entries) : ~EqualsIgnoreCase(entries[i].name, name)

\* the run asked for the issue type and the instance has none of that name
TypeUnresolvable ==
    /\ issue_type /= None
    /\ NoEntryNamed(remote.projectTypes, issue_type)
    /\ NoEntryNamed(remote.allTypes, issue_type)

\* the run asked for the priority and the instance has none of that name
PriorityUnresolvable ==
    /\ priority /= None
    /\ NoEntryNamed(remote.priorities, priority)

\* the lookups of create_issue ended without both ids
Unresolved ==
    \/ TypeUnresolvable
    \/ PriorityUnresolvable
    \/ issue_type_id = None
    \/ priority_id = None

\* C6: when the issue type name or the priority name cannot be resolved by
\* the lookups, the run exits with code 1 and has issued no create, link,
\* attachment or comment call.
C6_UnresolvedAborts ==
    (Exited /\ Ran /\ Unresolved) =>
        /\ exitCode = 1
        /\ created = <<>>
        /\ \A op \in {"create", "link", "attach", "comment"} : CallsOf(op) = {}

\* the issue type resolved, the instance has priorities but none with the
\* requested name, and the run has exited with code 1
C6_Witness ==
    /\ Exited /\ Ran
    /\ issue_type_id /= None
    /\ remote.priorities /= <<>>
    /\ PriorityUnresolvable
    /\ \E i \in CallsOf("get_priorities") : calls[i].outcome = "ok"
    /\ exitCode = 1

-----------------------------------------------------------------------------
(* C7: exit code *)

\* the run reached create_issue and no ticket came of it
CreationFailed == Ran /\ created = <<>>

\* some search, link, attachment or comment call of the run failed
BestEffortFailure ==
    \E i \in 1..Len(calls) :
        /\ calls[i].op \in {"search", "link", "attach", "comment"}
        /\ calls[i].outcome /= "ok"

\* C7 as stated: the exit code is 1 exactly when ticket creation fails or
\* the configuration is missing, and 0 in every other run.
C7_AsStated ==
    Exited =>
        exitCode = IF ~configPresent \/ CreationFailed THEN 1 ELSE 0

\* C7 (amended): the exit code is 1 exactly when ticket creation fails
\* (unresolved issue type or priority, or a failed create call) or the
\* configuration is missing; it is 2 when the configuration is present and
\* the argument parser rejects the command line; in every other run,
\* including runs where search, link, attachment or comment calls fail and
\* debug-mode runs, it is 0.
C7_ExitCode ==
    Exited =>
        exitCode = IF ~configPresent THEN 1
                   ELSE IF ~argsOk THEN 2
                   ELSE IF CreationFailed THEN 1
                   ELSE 0

\* a run in which the search, the link and the comment call all failed
\* exited with code 0
C7_Witness ==
    /\ Exited /\ Ran
    /\ \A op \in {"link", "comment"} :
          \E i \in CallsOf(op) : calls[i].outcome /= "ok"
    /\ BestEffortFailure
    /\ exitCode = 0

-----------------------------------------------------------------------------
(* C8: attachments *)

Logs == {"out", "err"}

LogName(l) ==
    IF l = "out" THEN args.outAttachmentName ELSE args.errorAttachmentName
LogPath(l) ==
    IF l = "out" THEN args.outAttachmentFile ELSE args.errorAttachmentFile

\* the upload calls the run issued for the log
Uploads(l) == {i \in CallsOf("attach") : calls[i].filename = LogName(l)}

\* the run went through post-processing to its end
PostProcessed == Exited /\ Ran /\ Len(created) = 1

\* C8 as stated: an upload is attempted for a log if and only if both its
\* name and its path were supplied and the path exists.
C8_AsStated ==
    PostProcessed =>
        \A l \in Logs :
            (Uploads(l) /= {}) <=>
                (Truthy(LogName(l)) /\ Truthy(LogPath(l)) /\ files[l] /= "missing")

\* C8 (amended): in a run that created a ticket, an upload is attempted for
\* a log if and only if both its name and its path were supplied (and are
\* not empty), the path exists and the file can be opened for reading, and
\* then exactly once; a run that created no ticket attempts no upload; a
\* supplied path
\* that does not exist never causes a fatal error: no upload is issued for
\* it, the run continues to the comment step and exits 0.
C8_Attachments ==
    /\ PostProcessed =>
          /\ \A l \in Logs :
                /\ (Uploads(l) /= {}) <=>
                      (Truthy(LogName(l)) /\ Truthy(LogPath(l)) /\ files[l] = "ok")
                /\ Cardinality(Uploads(l)) <= 1
          /\ Cardinality(CallsOf("comment")) = 1
          /\ exitCode = 0
    /\ created = <<>> => CallsOf("attach") = {}

\* the output log's path was supplied and does not exist, the error log was
\* uploaded after it, and the run exited 0
C8_Witness ==
    /\ PostProcessed
    /\ Truthy(LogName("out")) /\ Truthy(LogPath("out"))
    /\ files["out"] = "missing"
    /\ Uploads("out") = {}
    /\ Uploads("err") /= {}
    /\ CallsOf("comment") /= {}
    /\ exitCode = 0

-----------------------------------------------------------------------------
(* C9: link failure *)

\* the link call raised, or was answered with a status other than 201
LinkFailed == \E i \in CallsOf("link") : calls[i].outcome /= "ok"

\* C9: once the link call has failed, the run does not exit with a code
\* other than 0, the new ticket stays, and the run ends only after the
\* attachment steps (an upload for every requested, readable log) and the
\* comment call, all of them after the link call and for the new ticket.
C9_LinkFailureSwallowed ==
    LinkFailed =>
        /\ Len(created) = 1
        /\ exitCode = 0
        /\ Exited =>
              /\ \A l \in Logs :
                    (Truthy(LogName(l)) /\ Truthy(LogPath(l)) /\ files[l] = "ok")
                    => \E i \in Uploads(l) :
                          /\ calls[i].target = created[1].key
                          /\ \A k \in CallsOf("link") : k < i
              /\ \E i \in CallsOf("comment") :
                    /\ calls[i].target = created[1].key
                    /\ \A k \in CallsOf("link") : k < i

\* the link call raised, an attachment was uploaded afterwards and the run
\* exited 0
C9_Witness ==
    /\ Exited
    /\ \E i \in CallsOf("link") : calls[i].outcome = "exception"
    /\ CallsOf("attach") /= {}
    /\ exitCode = 0

-----------------------------------------------------------------------------
(* C10: search failure *)

\* C10: once the search call has failed, the failure is printed, the run
\* holds no existing issue and goes on into create_issue with the alarm's
\* own summary and description: it never makes a link call, it exits only
\* after the issue-type lookup, and with code 1 only if no ticket was
\* created; a successful create call creates exactly one ticket.
C10_SearchFailureContinues ==
    SearchFailed =>
        /\ \E i \in 1..Len(printed) :
              printed[i] = "Error searching for existing issues"
        /\ existing_issue = NoIssue
        /\ pc /= "search"
        /\ summary = args.summary /\ description = args.description
        /\ OwnText
        /\ CallsOf("link") = {}
        /\ Exited =>
              /\ \E i \in CallsOf("get_project") :
                    \A k \in CallsOf("search") : k < i
              /\ exitCode = IF created = <<>> THEN 1 ELSE 0
        /\ CreateSucceeded => Len(created) = 1

\* the search call failed while the page held an open ticket for the
\* object, and the run created a fresh ticket
C10_Witness ==
    /\ Exited /\ SearchFailed
    /\ Candidates /= {}
    /\ Len(created) = 1
    /\ created[1].summary = args.summary
    /\ exitCode = 0

-----------------------------------------------------------------------------
(* C11: every failure is reported *)

\* the lines with which the program reports a failure of the operation
DiagnosticsFor(op) ==
    CASE op = "search" -> {"Error searching for existing issues"}
      [] op = "get_project" -> {"Error getting issue type ID",
                                "Error getting project info"}
      [] op = "get_issue_types" -> {"Error getting issue type ID"}
      [] op = "get_priorities" -> {"Error getting priority ID",
                                   "Error getting priorities"}
      [] op = "create" -> {"Error creating issue"}
      [] op = "link" -> {"Warning: Could not create link between issues"}
      [] op = "attach" -> {"Error adding attachment"}
      [] op = "comment" -> {"Error adding comment"}

Reported(op) == \E j \in 1..Len(printed) : printed[j] \in DiagnosticsFor(op)

\* C11: every failed remote call of a run (search, issue-type lookup,
\* priority lookup, create, link, attachment, comment), a link call answered
\* with a non-success status included, has produced a printed diagnostic.
C11_AsStated ==
    \A i \in 1..Len(calls) :
        calls[i].outcome /= "ok" => Reported(calls[i].op)

-----------------------------------------------------------------------------
(* C12: debug mode *)

DebugRun == configPresent /\ argsOk /\ args.debug

\* the operations of the calls issued so far, in order
Ops == [i \in 1..Len(calls) |-> calls[i].op]

\* C12: a run in debug mode issues the read call for the project and then
\* the read call for the priorities and no other call, whatever the other
\* arguments and whether or not those calls fail; it creates no ticket and
\* returns with exit code 0.
C12_DebugOnlyReads ==
    DebugRun =>
        /\ \A i \in 1..Len(calls) : calls[i].op \in {"get_project", "get_priorities"}
        /\ created = <<>>
        /\ Exited => /\ Ops = <<"get_project", "get_priorities">>
                     /\ exitCode = 0

\* a debug run given both logs, whose first read call failed, has exited
C12_Witness ==
    /\ DebugRun /\ Exited
    /\ Truthy(args.outAttachmentName) /\ Truthy(args.outAttachmentFile)
    /\ files.out = "ok"
    /\ calls[1].outcome /= "ok"
    /\ calls[2].outcome = "ok"

-----------------------------------------------------------------------------
(* C13: no mapping entry for the object-name field *)

\* the run has left search_existing_issue behind
PastSearch == pc \notin {"import", "parse_args", "prepare", "search"}

\* C13: when the field mapping has no entry for the object-name field (or
\* an empty one), the run issues no search call; once past the search step
\* it has printed the warning, holds no existing issue and goes on into
\* create_issue with the alarm's own summary and description; it makes no
\* link call, and it exits as any fresh run does: after the issue-type
\* lookup, with code 1 if no ticket was created and 0 otherwise.
C13_UnmappedSkipsSearch ==
    (Ran /\ ~ObjectNameMapped) =>
        /\ CallsOf("search") = {}
        /\ CallsOf("link") = {}
        /\ OwnText
        /\ PastSearch =>
              /\ \E j \in 1..Len(printed) :
                    printed[j] = "Warning: vtom_object_name custom field not configured"
              /\ existing_issue = NoIssue
              /\ summary = args.summary /\ description = args.description
        /\ Exited =>
              /\ CallsOf("get_project") /= {}
              /\ exitCode = IF created = <<>> THEN 1 ELSE 0
        /\ CreateSucceeded => Len(created) = 1

\* without the entry, a run created a fresh ticket and exited 0 although
\* the instance holds an open ticket for the object
C13_Witness ==
    /\ Exited /\ Ran /\ ~ObjectNameMapped
    /\ EqualOpen /= {}
    /\ Len(created) = 1
    /\ created[1].summary = args.summary
    /\ exitCode = 0

-----------------------------------------------------------------------------
(* C14: failure detail of write calls *)

WriteOps == {"create", "link", "attach", "comment"}

\* the failed call was answered: there is a response body to report
HasBody(c) == c.outcome \in {"json_body", "text_body", "status"}

\* the line that reports the body: the parsed detail, else the raw text
BodyLines(c) ==
    CASE c.outcome = "json_body" -> {"Error details"}
      [] c.outcome = "text_body" -> {"Response content"}
      [] c.outcome = "status" -> {"Error details", "Response content"}

\* the operation's diagnostic is followed by the line reporting the body
Surfaced(c) ==
    \E j \in 1..(Len(printed) - 1) :
        /\ printed[j] \in DiagnosticsFor(c.op)
        /\ printed[j + 1] \in BodyLines(c)

\* C14: every write call (create issue, link, attach file, add comment) that
\* fails with a response has the structured detail of the response body
\* printed when the body is JSON, and the raw response text otherwise.
C14_AsStated ==
    \A i \in 1..Len(calls) :
        (calls[i].op \in WriteOps /\ HasBody(calls[i])) => Surfaced(calls[i])

-----------------------------------------------------------------------------
(* C15: issue-type and priority lookups *)

\* id of the first listed entry with the name, in any letter case
FirstNamed(entries, name) ==
    IF NoEntryNamed(entries, name) THEN None
    ELSE entries[Newest({i \in 1..Len(entries) :
                            EqualsIgnoreCase(entries[i].name, name)})].id

\* what the issue-type lookup has come to, read off its calls
IssueTypeFound ==
    IF \E i \in CallsOf("get_project") : calls[i].outcome /= "ok" THEN None
    ELSE IF ~NoEntryNamed(remote.projectTypes, issue_type)
         THEN FirstNamed(remote.projectTypes, issue_type)
    ELSE IF \E i \in CallsOf("get_issue_types") : calls[i].outcome = "ok"
         THEN FirstNamed(remote.allTypes, issue_type)
    ELSE None

\* C15: the issue-type lookup yields the id of the first entry of the
\* project's issue types whose name equals the requested name in any letter
\* case; it asks for the global list only when the project call succeeded
\* without a match, and then yields the first such entry of that list; the
\* priority lookup yields the first such entry of the priority list; either
\* yields "not found" when no entry matches or its call fails. With "not
\* found" for either, the run exits 1 without a create call; a create call
\* carries the two ids found.
C15_Lookups ==
    Ran =>
        /\ CallsOf("get_project") /= {} => issue_type_id = IssueTypeFound
        /\ CallsOf("get_issue_types") /= {} =>
              /\ \A i \in CallsOf("get_project") : calls[i].outcome = "ok"
              /\ NoEntryNamed(remote.projectTypes, issue_type)
        /\ \A i \in CallsOf("get_priorities") :
              priority_id = IF calls[i].outcome = "ok"
                            THEN FirstNamed(remote.priorities, priority)
                            ELSE None
        /\ \A i \in CallsOf("create") :
              /\ issue_type_id /= None /\ calls[i].issuetype = issue_type_id
              /\ priority_id /= None /\ calls[i].priority = priority_id
        /\ (Exited /\ (issue_type_id = None \/ priority_id = None)) =>
              CallsOf("create") = {} /\ exitCode = 1

\* the issue type came from the global list, the priority from an entry
\* whose name differs in letter case from the requested name and precedes
\* the exact one, and the create call was issued
C15_Witness ==
    /\ Ran /\ Exited
    /\ NoEntryNamed(remote.projectTypes, issue_type)
    /\ issue_type_id = FirstNamed(remote.allTypes, issue_type)
    /\ issue_type_id /= None
    /\ \E i \in 1..Len(remote.priorities) :
          /\ remote.priorities[i].id = priority_id
          /\ remote.priorities[i].name /= priority
          /\ \E j \in (i + 1)..Len(remote.priorities) :
                remote.priorities[j].name = priority
    /\ CallsOf("create") /= {}

-----------------------------------------------------------------------------
(* C16 *)

WizardCallsOf(op) == {i \in 1..Len(wizardCalls) : wizardCalls[i].op = op}

\* generate_config_file ran
Generated == config_content /= NoContent

\* the user interrupted the wizard
Cancelled == step = "exited" /\ wizardExit = 0 /\ ~Generated

\* the call failed or answered with nothing to choose from
Unanswered(op) == \E i \in WizardCallsOf(op) : wizardCalls[i].answer = <<>>

ConnectionFailed == \E i \in WizardCallsOf("myself") : wizardCalls[i].outcome /= "ok"

\* the template's four field ids
TemplateFieldIds ==
    /\ config_content.vtom_object_name = cf10055
    /\ config_content.request_type = cf10010
    /\ config_content.affected_services = cf10043
    /\ config_content.organizations = cf10002

-----------------------------------------------------------------------------
(* C17 *)

\* the place of a call in the order the claim gives
Rank(c) ==
    CASE c.op = "search" -> 1
      [] c.op = "get_project" -> 2
      [] c.op = "get_issue_types" -> 3
      [] c.op = "get_priorities" -> 4
      [] c.op = "create" -> 5
      [] c.op = "link" -> 6
      [] c.op = "attach" -> IF c.filename = args.outAttachmentName THEN 7 ELSE 8
      [] c.op = "comment" -> 9

\* C17: the remote calls of a non-debug run occur in the order search,
\* issue-type lookup, priority lookup, create, link, output-log attachment,
\* error-log attachment, comment, each at most once; the link call occurs
\* in the linked outcome only; link, attachment and comment calls follow a
\* successful create call; a failed lookup or create call is the last call.
C17_CallOrder ==
    Ran =>
        /\ \A i, j \in 1..Len(calls) :
              i < j => Rank(calls[i]) < Rank(calls[j])
        /\ CallsOf("link") /= {} => existing_issue /= NoIssue
        /\ (CreateSucceeded /\ existing_issue /= NoIssue /\ pc /= "link") =>
              CallsOf("link") /= {}
        /\ \A j \in 1..Len(calls) :
              calls[j].op \in {"link", "attach", "comment"} =>
                 \E i \in 1..(j - 1) :
                    calls[i].op = "create" /\ calls[i].outcome = "ok"
        /\ \A i \in 1..Len(calls) :
              (/\ calls[i].op \in {"get_project", "get_issue_types",
                                   "get_priorities", "create"}
               /\ calls[i].outcome /= "ok") => i = Len(calls)

\* a linked run that issued every kind of call, both attachments included
C17_Witness ==
    /\ Ran /\ Exited
    /\ \A op \in {"search", "get_project", "get_priorities", "create", "link",
                  "comment"} : CallsOf(op) /= {}
    /\ Cardinality(CallsOf("attach")) = 2

-----------------------------------------------------------------------------
(* C18 *)

\* C18: in the linked outcome every attachment and comment call targets
\* the key of the ticket the run created, never the key of the existing
\* ticket; no call at all is addressed to the existing ticket, whose key
\* occurs only in the link call and in the summary and description of the
\* create call, and the instance still holds it as the search returned it.
C18_ExistingUntouched ==
    (Ran /\ existing_issue /= NoIssue) =>
        /\ \A i \in CallsOf("attach") \cup CallsOf("comment") :
              /\ Len(created) = 1
              /\ calls[i].target = created[1].key
              /\ calls[i].target /= existing_issue.key
        /\ \A i \in 1..Len(calls) :
              /\ calls[i].target /= existing_issue.key
              /\ References(calls[i], existing_issue.key) =>
                    \/ /\ calls[i].op = "link"
                       /\ calls[i].outward = existing_issue.key
                    \/ /\ calls[i].op = "create"
                       /\ calls[i].outward = None
                       /\ calls[i].inward = None
        /\ \E k \in 1..Len(remote.issues) : remote.issues[k] = existing_issue

\* a linked run that attached both logs and commented
C18_Witness ==
    /\ Ran /\ Exited
    /\ existing_issue /= NoIssue
    /\ Cardinality(CallsOf("attach")) = 2
    /\ CallsOf("comment") /= {}
    /\ CallsOf("link") /= {}

-----------------------------------------------------------------------------
(* C19 *)

\* the error log is named, has a path and can be read
ErrorLogAttachable ==
    /\ Truthy(args.errorAttachmentName)
    /\ Truthy(args.errorAttachmentFile)
    /\ files.err = "ok"

\* C19: a run that created a ticket, fresh or linked, ends only after the
\* comment call, which it issues exactly once whatever became of the link
\* call and of the attachments; and it issues the attachment call of a
\* readable error log whatever became of the output log's attachment.
C19_PostProcessing ==
    Ran =>
        /\ Cardinality(CallsOf("comment")) <= 1
        /\ (CreateSucceeded /\ ~Exited) =>
              /\ pc \in {"link", "attach_out", "attach_err", "comment"}
              /\ CallsOf("comment") = {}
        /\ (CreateSucceeded /\ Exited) =>
              /\ Cardinality(CallsOf("comment")) = 1
              /\ exitCode = 0
              /\ ErrorLogAttachable =>
                    \E i \in CallsOf("attach") :
                       calls[i].filename = args.errorAttachmentName

\* the link call and the output log's attachment failed; the error log's
\* attachment and the comment were attempted all the same
C19_Witness ==
    /\ Ran /\ Exited
    /\ \E i \in CallsOf("link") : calls[i].outcome /= "ok"
    /\ \E i \in CallsOf("attach") :
          /\ calls[i].filename = args.outAttachmentName
          /\ calls[i].outcome /= "ok"
    /\ \E i \in CallsOf("attach") :
          calls[i].filename = args.errorAttachmentName
    /\ Cardinality(CallsOf("comment")) = 1

-----------------------------------------------------------------------------
(* C20 *)

\* the table's value for a supplied name that is, letter case apart, one of
\* its (lower-case) keys, else the fallback
TableValue(table, name, fallback) ==
    IF name /= None /\ \E k \in 1..Len(table) : EqualsIgnoreCase(name, table[k][1])
    THEN table[CHOOSE k \in 1..Len(table) : EqualsIgnoreCase(name, table[k][1])][2]
    ELSE fallback

ResolvedPriority == TableValue(priority_mapping, args.severity, args.priority)

ResolvedIssueType ==
    TableValue(issue_type_mapping, args.alarmType, args.issueType)

\* C20: once main() has mapped them, the priority name is the severity
\* table's value when the lower-cased severity is a key of it, else the
\* priority argument, and the issue type name is the alarm-type table's
\* value when the lower-cased alarm type is a key of it, else the issue-type
\* argument; the create call, fresh or linked, carries the ids found for
\* exactly these names.
C20_ResolvedNames ==
    (Ran /\ pc \notin {"import", "parse_args", "prepare"}) =>
        /\ priority = ResolvedPriority
        /\ issue_type = ResolvedIssueType
        /\ \A i \in CallsOf("create") :
              /\ calls[i].priority
                    = FirstNamed(remote.priorities, ResolvedPriority)
              /\ calls[i].issuetype
                    = IF NoEntryNamed(remote.projectTypes, ResolvedIssueType)
                      THEN FirstNamed(remote.allTypes, ResolvedIssueType)
                      ELSE FirstNamed(remote.projectTypes, ResolvedIssueType)

\* a linked run created its ticket with the priority mapped from a severity
\* written in mixed case, where the priority argument named another one,
\* and with the issue type argument, the alarm type not being in the table
C20_Witness ==
    /\ Ran /\ Exited
    /\ existing_issue /= NoIssue
    /\ CallsOf("create") /= {}
    /\ args.severity /= None
    /\ priority = sHighest /\ args.priority /= sHighest
    /\ args.alarmType /= None
    /\ issue_type = args.issueType /\ issue_type = sTask

-----------------------------------------------------------------------------
(* C21 *)

\* positions, in the whole project, of the open tickets whose object-name
\* field is non-empty and equals the alarm's object name
OpenMatches ==
    {i \in 1..Len(remote.issues) :
        /\ ~ClosedFamily(remote.issues[i].status)
        /\ ObjectNameOf(remote.issues[i]) = args.objectName
        /\ ObjectNameOf(remote.issues[i]) /= <<>>}

\* there are such tickets, and all of them are older than the maxResults
\* most recently created tickets of the project
AllMatchesBeyondPage ==
    /\ OpenMatches /= {}
    /\ \A i \in OpenMatches : i > maxResults

\* C21: the ticket a run selects is one of the maxResults (100) most
\* recently created tickets of the project, and no call of the run mentions
\* an older one; when every open ticket matching the object name is older
\* than those, a successful search reports no existing issue and the run
\* goes on as in the no-match case: the create call carries the alarm's own
\* summary and description, no link call is made, and the ticket a
\* successful create call makes is the fresh one.
C21_OnlySearchPage ==
    Ran =>
        /\ existing_issue /= NoIssue =>
              \E i \in 1..Len(remote.issues) :
                 i <= maxResults /\ remote.issues[i] = existing_issue
        /\ \A i \in 1..Len(remote.issues), c \in 1..Len(calls) :
              i > maxResults => ~References(calls[c], remote.issues[i].key)
        /\ AllMatchesBeyondPage =>
              /\ existing_issue = NoIssue
              /\ \A k \in 1..Len(printed) : printed[k] /= "Found existing issue"
              /\ SearchSucceeded =>
                    \E k \in 1..Len(printed) :
                       printed[k] = "No existing open issue found"
              /\ \A c \in CallsOf("create") :
                    /\ calls[c].summary = args.summary
                    /\ calls[c].description = args.description
              /\ CallsOf("link") = {}
              /\ (Exited /\ CreateSucceeded) =>
                    /\ Len(created) = 1
                    /\ created[1].summary = args.summary
                    /\ created[1].description = args.description
                    /\ exitCode = 0

\* the project holds an open ticket of the alarm's object just beyond the
\* page, the search succeeded and the run created a fresh, unlinked ticket
C21_Witness ==
    /\ Ran /\ Exited
    /\ AllMatchesBeyondPage
    /\ maxResults + 1 \in OpenMatches
    /\ SearchSucceeded
    /\ CreateSucceeded
    /\ CallsOf("link") = {}
    /\ created[1].summary = args.summary

=============================================================================
